---- MODULE Spec2Model ----
(***************************************************************************)
(* Model of the chapter reader of labalaba_baca (src/reader.js).           *)
(*                                                                         *)
(* JavaScript strings are sequences of one-character strings, so that      *)
(* parseInt, String(n), toLowerCase and includes are computed character by *)
(* character.  Every activation of loadChapter that is suspended at an      *)
(* await is a frame of `calls`, in the order the activations were started; *)
(* a frame is dropped when its activation returns.                         *)
(***************************************************************************)
EXTENDS Integers, Sequences, FiniteSets, TLC

VARIABLES
    pc,                 \* position of the DOMContentLoaded handler / init()
    urlNovel,           \* value of params.get('novel'), fixed by the page URL
    novelFolder,
    chapters,
    currentChapterIndex,
    novelTitleEl,       \* novelTitleEl.textContent
    documentTitle,
    chapterContentEl,   \* what the content area shows
    chapterIndicatorEl, \* chapterIndicatorEl.textContent
    prevDisabled,       \* prevBtn.disabled
    nextDisabled,       \* nextBtn.disabled
    chapterListEl,      \* the rendered <a> entries of the chapter picker
    chapterSearchEl,    \* chapterSearchEl.value
    chapterModalVisible,
    settingsModalVisible,
    atTop,              \* the window is scrolled to (0, 0)
    localStorage,
    fontSizeStyle,      \* chapterContentEl.style.fontSize
    fontSizeValueEl,
    fontSizeSlider,     \* fontSizeSlider.value
    lineHeightStyle,    \* chapterContentEl.style.lineHeight
    lineHeightValueEl,
    lineHeightSlider,
    dataTheme,          \* documentElement's data-theme attribute
    manifestFetches,    \* number of manifest.json requests issued
    calls               \* suspended activations of loadChapter, oldest first

navVars   == <<chapters, currentChapterIndex, chapterContentEl,
               chapterIndicatorEl, prevDisabled, nextDisabled, atTop, calls>>
initVars  == <<pc, urlNovel, novelFolder, novelTitleEl, documentTitle,
               manifestFetches>>
listVars  == <<chapterListEl, chapterSearchEl>>
modalVars == <<chapterModalVisible, settingsModalVisible>>
prefVars  == <<fontSizeStyle, fontSizeValueEl, fontSizeSlider, lineHeightStyle,
               lineHeightValueEl, lineHeightSlider, dataTheme>>
vars      == <<navVars, initVars, listVars, modalVars, prefVars, localStorage>>

----------------------------------------------------------------------------
(* Bounds *)

MaxChapters == 2
MaxInFlight == 2

----------------------------------------------------------------------------
(* Strings *)

Null == <<"null">>          \* the value null; no string has this shape

\* a JavaScript number: an integer or NaN
Num(n) == [nan |-> FALSE, val |-> n]
NaN    == [nan |-> TRUE, val |-> 0]

DigitChars == <<"0", "1", "2", "3", "4", "5", "6", "7", "8", "9">>

IsDigit(c) == \E d \in 1..10 : DigitChars[d] = c

DigitValue(c) == (CHOOSE d \in 1..10 : DigitChars[d] = c) - 1

RECURSIVE NatToString(_)
NatToString(n) ==
    IF n < 10 THEN <<DigitChars[n + 1]>>
    ELSE NatToString(n \div 10) \o <<DigitChars[(n % 10) + 1]>>

\* String(n) for an integer n, as template literals and setItem convert it
NumToString(n) == IF n < 0 THEN <<"-">> \o NatToString(-n) ELSE NatToString(n)

\* String(v) for a value handed to parseInt: null becomes "null"
ArgToString(v) == IF v = Null THEN <<"n", "u", "l", "l">> ELSE v

RECURSIVE SkipWhite(_)
SkipWhite(s) ==
    IF s # <<>> /\ Head(s) = " " THEN SkipWhite(Tail(s)) ELSE s

RECURSIVE DigitPrefix(_)
DigitPrefix(s) ==
    IF s # <<>> /\ IsDigit(Head(s)) THEN <<Head(s)>> \o DigitPrefix(Tail(s))
    ELSE <<>>

RECURSIVE DigitsToNat(_, _)
DigitsToNat(s, acc) ==
    IF s = <<>> THEN acc
    ELSE DigitsToNat(Tail(s), acc * 10 + DigitValue(Head(s)))

\* parseInt(v, 10): leading white space, an optional sign, then the longest
\* run of decimal digits; NaN when there is no digit.
ParseInt(v) ==
    LET s      == SkipWhite(ArgToString(v))
        neg    == s # <<>> /\ Head(s) = "-"
        signed == s # <<>> /\ Head(s) \in {"-", "+"}
        rest   == IF signed THEN Tail(s) ELSE s
        digits == DigitPrefix(rest)
    IN  IF digits = <<>> THEN NaN
        ELSE IF neg THEN Num(0 - DigitsToNat(digits, 0))
        ELSE Num(DigitsToNat(digits, 0))

\* x || 0 for a number x: NaN and 0 are falsy
OrZero(x) == IF x.nan \/ x.val = 0 THEN 0 ELSE x.val

LowerChar(c) ==
    CASE c = "A" -> "a"
      [] c = "B" -> "b"
      [] OTHER   -> c

ToLowerCase(s) == [i \in 1..Len(s) |-> LowerChar(s[i])]

\* s.includes(t)
Includes(s, t) ==
    \E k \in 0..(Len(s) - Len(t)) : SubSeq(s, k + 1, k + Len(t)) = t

\* s.replace(/-/g, ' ')
ReplaceHyphens(s) == [i \in 1..Len(s) |-> IF s[i] = "-" THEN " " ELSE s[i]]

\* arr.indexOf(x): the first 0-based position holding x, -1 when there is none
IndexOf(arr, x) ==
    IF \E i \in 1..Len(arr) : arr[i] = x
    THEN (CHOOSE i \in 1..Len(arr) :
             arr[i] = x /\ \A j \in 1..(i - 1) : arr[j] # x) - 1
    ELSE -1

----------------------------------------------------------------------------
(* Inputs *)

Light == <<"l", "i", "g", "h", "t">>
Dark  == <<"d", "a", "r", "k">>

FontSizeDefault   == <<"1", "8">>
LineHeightDefault == <<"1", ".", "8">>

FontSizeValues   == {FontSizeDefault, <<"2", "2">>}
LineHeightValues == {LineHeightDefault, <<"2">>}
ThemeValues      == {Light, Dark}

\* what localStorage may hold under lastChapter-{novel} when the page opens
StoredLastChapter == {<<"1">>, <<"-", "1">>, <<"7">>, <<"x">>}

NovelParams == {Null, <<"a", "-", "b">>}

SearchTerms == {<<>>, <<"a">>, <<"B">>}

\* the titles of the manifests: "b", "Ab", "b", "Ab", ...
TitleAt(i) == IF i % 2 = 1 THEN <<"b">> ELSE <<"A", "b">>

\* the descriptor JSON.parse builds at 1-based position i; ref is the
\* identity of the object, which is what indexOf compares
Descriptor(i, t) == [ref |-> i, number |-> i, title |-> t, file |-> i]

Manifests == {[i \in 1..n |-> Descriptor(i, TitleAt(i))] : n \in 0..MaxChapters}

\* how a fetch settles: a response status, or Rejected when its promise rejects
Rejected == 0
Statuses == {200, 404, 500, Rejected}

\* response.ok
Ok(status) == status \in 200..299

LastChapterKey == "lastChapter"     \* `lastChapter-${novelFolder}`
PrefKeys == {"fontSize", "lineHeight", "theme"}

\* localStorage maps every key to its string, or to Null when it has no entry
GetItem(store, key) == store[key]

SetItem(store, key, value) == [store EXCEPT ![key] = value]

----------------------------------------------------------------------------
(* Content of the content area *)

Initial == [kind |-> "initial"]
LoadingText(chapter) ==
    [kind |-> "loading", number |-> chapter.number, title |-> chapter.title]
FailedText == [kind |-> "failed"]
\* the body served for a path, shown verbatim through textContent
BodyText(path) == [kind |-> "text", path |-> path]

\* the fixed messages of the title area, each a text of one piece
NovelNotFound == <<"Novel not found in URL.">>
CouldNotLoad  == <<"Could not load novel.">>

----------------------------------------------------------------------------
(* The page before the DOMContentLoaded handler runs *)

Init ==
    /\ pc = "start"
    /\ urlNovel \in NovelParams
    /\ novelFolder = <<>>
    /\ chapters = <<>>
    /\ currentChapterIndex = 0
    /\ novelTitleEl = <<>>
    /\ documentTitle = <<>>
    /\ chapterContentEl = Initial
    /\ chapterIndicatorEl = <<>>
    /\ prevDisabled = FALSE      \* a button is enabled unless it is told not to be
    /\ nextDisabled = FALSE
    /\ chapterListEl = <<>>
    /\ chapterSearchEl = <<>>
    /\ chapterModalVisible = FALSE
    /\ settingsModalVisible = FALSE
    /\ atTop = TRUE
    /\ \E fs \in FontSizeValues \cup {Null},
          lh \in LineHeightValues \cup {Null},
          th \in ThemeValues \cup {Null},
          lc \in StoredLastChapter \cup {Null} :
          localStorage = [k \in PrefKeys \cup {LastChapterKey} |->
                            CASE k = "fontSize"   -> fs
                              [] k = "lineHeight" -> lh
                              [] k = "theme"      -> th
                              [] OTHER            -> lc]
    /\ fontSizeStyle = <<>>
    /\ fontSizeValueEl = <<>>
    /\ fontSizeSlider = <<>>
    /\ lineHeightStyle = <<>>
    /\ lineHeightValueEl = <<>>
    /\ lineHeightSlider = <<>>
    /\ dataTheme = Null
    /\ manifestFetches = 0
    /\ calls = <<>>

----------------------------------------------------------------------------
(* Core functions *)

LlmPath(chapter) == [dir |-> "llm_chapters", file |-> chapter.file]
RawPath(chapter) == [dir |-> "raw_chapters", file |-> chapter.file]

\* the guard of loadChapter: the index is not a position of the list cs
OutOfRange(cs, index) == index < 0 \/ index >= Len(cs)

\* An activation of loadChapter suspended at an await: the index it was called
\* with, the await it is at, the paths it has fetched and the statuses it has
\* seen.  overtaken records that the text now in the content area was put
\* there by an activation that was called after this one.
\* loadChapter requesting the preferred and the fallback path at once
NewCallFetchingBoth(cs, index) == [index     |-> index,
                                   at        |-> "llm",
                                   fetches   |-> <<LlmPath(cs[index + 1]),
                                                   RawPath(cs[index + 1])>>,
                                   statuses  |-> <<>>,
                                   overtaken |-> FALSE]

\* loadChapter(index) suspended at its first await
NewCall(cs, index) == [index     |-> index,
                       at        |-> "llm",
                       fetches   |-> <<LlmPath(cs[index + 1])>>,
                       statuses  |-> <<>>,
                       overtaken |-> FALSE]

\* the content area is written by something else than a later activation's text
NotOvertaken(cs) == [j \in DOMAIN cs |-> [cs[j] EXCEPT !.overtaken = FALSE]]

\* the content area is written with the text of activation c
OvertakenBy(cs, c) == [j \in DOMAIN cs |-> [cs[j] EXCEPT !.overtaken = (j < c)]]

\* loadChapter with line 29 moved above the guard of line 27
LoadChapterInAssignFirst(cs, index) ==
    IF OutOfRange(cs, index)
    THEN /\ currentChapterIndex' = index
         /\ UNCHANGED <<chapterContentEl, calls>>
    ELSE /\ Len(calls) < MaxInFlight
         /\ currentChapterIndex' = index
         /\ chapterContentEl' = LoadingText(cs[index + 1])
         /\ calls' = Append(NotOvertaken(calls), NewCall(cs, index))

\* loadChapter(index) up to its first await.  cs is the chapter list the call
\* sees (init assigns `chapters` just before it calls).
LoadChapterIn(cs, index) ==
    IF OutOfRange(cs, index)
    THEN UNCHANGED <<currentChapterIndex, chapterContentEl, calls>>
    ELSE /\ Len(calls) < MaxInFlight
         /\ currentChapterIndex' = index
         /\ chapterContentEl' = LoadingText(cs[index + 1])
         /\ calls' = Append(NotOvertaken(calls), NewCall(cs, index))

LoadChapter(index) == LoadChapterIn(chapters, index)

Remove(seq, c) == [i \in 1..(Len(seq) - 1) |-> IF i < c THEN seq[i] ELSE seq[i + 1]]

IndicatorText(index, total) ==
    <<"Chapter ">> \o NumToString(index + 1) \o <<" / ">> \o NumToString(total)

updateUI ==
    /\ prevDisabled' = (currentChapterIndex = 0)
    /\ nextDisabled' = (currentChapterIndex = Len(chapters) - 1)
    /\ chapterIndicatorEl' = IndicatorText(currentChapterIndex, Len(chapters))

\* a catch block that calls loadChapter(index) again
LoadFailedRetrying(c) ==
    /\ currentChapterIndex' = calls[c].index
    /\ chapterContentEl' = LoadingText(chapters[calls[c].index + 1])
    /\ calls' = Append(Remove(NotOvertaken(calls), c),
                       NewCall(chapters, calls[c].index))
    /\ UNCHANGED <<chapters, chapterIndicatorEl, prevDisabled, nextDisabled,
                   atTop, localStorage>>

\* a catch block that logs the error and writes nothing to the page
LoadFailedSilently(c) ==
    /\ calls' = Remove(calls, c)
    /\ UNCHANGED <<chapters, currentChapterIndex, chapterContentEl,
                   chapterIndicatorEl, prevDisabled, nextDisabled, atTop,
                   localStorage>>

\* loadChapter persisting the index in a finally block, after a failure too
LoadFailedPersisting(c) ==
    /\ chapterContentEl' = FailedText
    /\ localStorage' = SetItem(localStorage, LastChapterKey,
                               NumToString(calls[c].index))
    /\ calls' = Remove(NotOvertaken(calls), c)
    /\ UNCHANGED <<chapters, currentChapterIndex, chapterIndicatorEl,
                   prevDisabled, nextDisabled, atTop>>

\* the catch block of loadChapter; the activation c returns
LoadFailed(c) ==
    /\ chapterContentEl' = FailedText
    /\ calls' = Remove(NotOvertaken(calls), c)
    /\ UNCHANGED <<chapters, currentChapterIndex, chapterIndicatorEl,
                   prevDisabled, nextDisabled, atTop, localStorage>>

\* line 48 persisting currentChapterIndex where it persists index
LoadDisplayedPersistingCurrent(c) ==
    /\ chapterContentEl' = BodyText(calls[c].fetches[Len(calls[c].fetches)])
    /\ atTop' = TRUE
    /\ updateUI
    /\ localStorage' = SetItem(localStorage, LastChapterKey,
                               NumToString(currentChapterIndex))
    /\ calls' = Remove(OvertakenBy(calls, c), c)
    /\ UNCHANGED <<chapters, currentChapterIndex>>

\* lines 45-48 of loadChapter; the activation c returns
LoadDisplayed(c) ==
    /\ chapterContentEl' = BodyText(calls[c].fetches[Len(calls[c].fetches)])
    /\ atTop' = TRUE
    /\ updateUI
    /\ localStorage' = SetItem(localStorage, LastChapterKey,
                               NumToString(calls[c].index))
    /\ calls' = Remove(OvertakenBy(calls, c), c)
    /\ UNCHANGED <<chapters, currentChapterIndex>>

\* line 38 testing !response.ok where it tests the status 404
LlmFetchSettlesFallbackOnAnyError(c, status) ==
    /\ c \in 1..Len(calls)
    /\ calls[c].at = "llm"
    /\ IF status = Rejected THEN LoadFailed(c)
       ELSE IF ~Ok(status)
       THEN /\ calls' = [calls EXCEPT
                           ![c].at = "raw",
                           ![c].statuses = Append(@, status),
                           ![c].fetches =
                               Append(@, RawPath(chapters[calls[c].index + 1]))]
            /\ UNCHANGED <<chapters, currentChapterIndex, chapterContentEl,
                           chapterIndicatorEl, prevDisabled, nextDisabled,
                           atTop, localStorage>>
       ELSE /\ calls' = [calls EXCEPT ![c].at = "text",
                                      ![c].statuses = Append(@, status)]
            /\ UNCHANGED <<chapters, currentChapterIndex, chapterContentEl,
                           chapterIndicatorEl, prevDisabled, nextDisabled,
                           atTop, localStorage>>
    /\ UNCHANGED <<initVars, listVars, modalVars, prefVars>>

\* `await fetch(llmPath)` of activation c settles
LlmFetchSettles(c, status) ==
    /\ c \in 1..Len(calls)
    /\ calls[c].at = "llm"
    /\ IF status = Rejected THEN LoadFailed(c)
       ELSE IF status = 404
       THEN /\ calls' = [calls EXCEPT
                           ![c].at = "raw",
                           ![c].statuses = Append(@, status),
                           ![c].fetches =
                               Append(@, RawPath(chapters[calls[c].index + 1]))]
            /\ UNCHANGED <<chapters, currentChapterIndex, chapterContentEl,
                           chapterIndicatorEl, prevDisabled, nextDisabled,
                           atTop, localStorage>>
       ELSE IF ~Ok(status) THEN LoadFailed(c)
       ELSE /\ calls' = [calls EXCEPT ![c].at = "text",
                                      ![c].statuses = Append(@, status)]
            /\ UNCHANGED <<chapters, currentChapterIndex, chapterContentEl,
                           chapterIndicatorEl, prevDisabled, nextDisabled,
                           atTop, localStorage>>
    /\ UNCHANGED <<initVars, listVars, modalVars, prefVars>>

\* `await fetch(rawPath)` of activation c settles
RawFetchSettles(c, status) ==
    /\ c \in 1..Len(calls)
    /\ calls[c].at = "raw"
    /\ IF status = Rejected \/ ~Ok(status) THEN LoadFailed(c)
       ELSE /\ calls' = [calls EXCEPT ![c].at = "text",
                                      ![c].statuses = Append(@, status)]
            /\ UNCHANGED <<chapters, currentChapterIndex, chapterContentEl,
                           chapterIndicatorEl, prevDisabled, nextDisabled,
                           atTop, localStorage>>
    /\ UNCHANGED <<initVars, listVars, modalVars, prefVars>>

\* `await response.text()` of activation c settles
TextSettles(c, resolved) ==
    /\ c \in 1..Len(calls)
    /\ calls[c].at = "text"
    /\ IF resolved THEN LoadDisplayed(c) ELSE LoadFailed(c)
    /\ UNCHANGED <<initVars, listVars, modalVars, prefVars>>

EntryText(chap) == NumToString(chap.number) \o <<".", " ">> \o chap.title

\* populateChapterList writing the map's position i where it writes indexOf
populateChapterListByPosition(cs, chaptersToRender) ==
    [i \in 1..Len(chaptersToRender) |->
        [dataIndex |-> NumToString(i - 1),
         text      |-> EntryText(chaptersToRender[i])]]

\* the <a> entries populateChapterList(chaptersToRender) renders
populateChapterList(cs, chaptersToRender) ==
    [i \in 1..Len(chaptersToRender) |->
        [dataIndex |-> NumToString(IndexOf(cs, chaptersToRender[i])),
         text      |-> EntryText(chaptersToRender[i])]]

\* the storage and the styled view that applySetting works on
View ==
    [store             |-> localStorage,
     fontSizeStyle     |-> fontSizeStyle,
     fontSizeValueEl   |-> fontSizeValueEl,
     lineHeightStyle   |-> lineHeightStyle,
     lineHeightValueEl |-> lineHeightValueEl,
     dataTheme         |-> dataTheme]

Px(value) == value \o <<"p", "x">>

\* applySetting without the setItem of line 68
applySettingWithoutSetItem(v, key, value) ==
    CASE key = "fontSize" ->
           [v EXCEPT !.fontSizeStyle = Px(value), !.fontSizeValueEl = Px(value)]
      [] key = "lineHeight" ->
           [v EXCEPT !.lineHeightStyle = value, !.lineHeightValueEl = value]
      [] key = "theme" ->
           [v EXCEPT !.dataTheme = value]
      [] OTHER -> v

\* applySetting whose fontSize case lacks its break and runs on into the
\* lineHeight case
applySettingFallingThrough(v, key, value) ==
    LET w == [v EXCEPT !.store = SetItem(v.store, key, value)]
    IN  CASE key = "fontSize" ->
               [w EXCEPT !.fontSizeStyle = Px(value),
                         !.fontSizeValueEl = Px(value),
                         !.lineHeightStyle = value,
                         !.lineHeightValueEl = value]
          [] key = "lineHeight" ->
               [w EXCEPT !.lineHeightStyle = value,
                         !.lineHeightValueEl = value]
          [] key = "theme" ->
               [w EXCEPT !.dataTheme = value]
          [] OTHER -> w

\* applySetting(key, value) on the view v
applySetting(v, key, value) ==
    LET w == [v EXCEPT !.store = SetItem(v.store, key, value)]
    IN  CASE key = "fontSize" ->
               [w EXCEPT !.fontSizeStyle = Px(value),
                         !.fontSizeValueEl = Px(value)]
          [] key = "lineHeight" ->
               [w EXCEPT !.lineHeightStyle = value,
                         !.lineHeightValueEl = value]
          [] key = "theme" ->
               [w EXCEPT !.dataTheme = value]
          [] OTHER -> w

ShowView(v) ==
    /\ localStorage' = v.store
    /\ fontSizeStyle' = v.fontSizeStyle
    /\ fontSizeValueEl' = v.fontSizeValueEl
    /\ lineHeightStyle' = v.lineHeightStyle
    /\ lineHeightValueEl' = v.lineHeightValueEl
    /\ dataTheme' = v.dataTheme

\* x || d for a string or null x: null and "" are falsy
OrDefault(x, d) == IF x = Null \/ x = <<>> THEN d ELSE x

\* the settings object loadSettings builds
StoredSettings(store) ==
    [fontSize   |-> OrDefault(GetItem(store, "fontSize"), FontSizeDefault),
     lineHeight |-> OrDefault(GetItem(store, "lineHeight"), LineHeightDefault),
     theme      |-> OrDefault(GetItem(store, "theme"), Light)]

\* the view after loadSettings: applySetting for each key, in key order
loadSettings(v) ==
    LET settings == StoredSettings(v.store)
        v1 == applySetting(v, "fontSize", settings.fontSize)
        v2 == applySetting(v1, "lineHeight", settings.lineHeight)
    IN  applySetting(v2, "theme", settings.theme)

----------------------------------------------------------------------------
(* Initialization *)

\* the DOMContentLoaded handler: the listeners are attached, loadSettings()
\* runs, and init() runs up to its fetch of the manifest
DOMContentLoaded ==
    /\ pc = "start"
    /\ ShowView(loadSettings(View))
    /\ fontSizeSlider' = StoredSettings(localStorage).fontSize
    /\ lineHeightSlider' = StoredSettings(localStorage).lineHeight
    /\ novelFolder' = urlNovel
    /\ IF urlNovel = Null \/ urlNovel = <<>>
       THEN /\ novelTitleEl' = NovelNotFound
            /\ pc' = "idle"
            /\ UNCHANGED <<documentTitle, manifestFetches>>
       ELSE /\ novelTitleEl' = ReplaceHyphens(urlNovel)
            /\ documentTitle' = ReplaceHyphens(urlNovel)
            /\ manifestFetches' = manifestFetches + 1
            /\ pc' = "manifest_fetch"
    /\ UNCHANGED <<urlNovel, navVars, listVars, modalVars>>

\* the catch block of init
ManifestFailed ==
    /\ novelTitleEl' = CouldNotLoad
    /\ pc' = "idle"
    /\ UNCHANGED <<urlNovel, novelFolder, documentTitle, manifestFetches,
                   navVars, listVars>>

\* init without the response.ok test of line 111
ManifestFetchSettlesUnchecked(status) ==
    /\ pc = "manifest_fetch"
    /\ IF status = Rejected THEN ManifestFailed
       ELSE /\ pc' = "manifest_json"
            /\ UNCHANGED <<urlNovel, novelFolder, novelTitleEl, documentTitle,
                           manifestFetches, navVars, listVars>>
    /\ UNCHANGED <<modalVars, prefVars, localStorage>>

\* `await fetch(manifest.json)` settles
ManifestFetchSettles(status) ==
    /\ pc = "manifest_fetch"
    /\ IF status = Rejected \/ ~Ok(status) THEN ManifestFailed
       ELSE /\ pc' = "manifest_json"
            /\ UNCHANGED <<urlNovel, novelFolder, novelTitleEl, documentTitle,
                           manifestFetches, navVars, listVars>>
    /\ UNCHANGED <<modalVars, prefVars, localStorage>>

\* init starting at the first chapter whatever is stored
lastChapterIndexIgnoringStore(store) == 0

\* the index init hands to loadChapter
lastChapterIndex(store) == OrZero(ParseInt(GetItem(store, LastChapterKey)))

\* `await response.json()` settles: it rejects, or yields the manifest
ManifestJsonSettles(parsed, manifest) ==
    /\ pc = "manifest_json"
    /\ IF ~parsed THEN ManifestFailed
       ELSE /\ chapters' = manifest
            /\ chapterListEl' = populateChapterList(manifest, manifest)
            /\ LoadChapterIn(manifest, lastChapterIndex(localStorage))
            /\ pc' = "idle"
            /\ UNCHANGED <<urlNovel, novelFolder, novelTitleEl, documentTitle,
                           manifestFetches, chapterIndicatorEl, prevDisabled,
                           nextDisabled, atTop, chapterSearchEl>>
    /\ UNCHANGED <<modalVars, prefVars, localStorage>>

----------------------------------------------------------------------------
(* Event listeners *)

Listening == pc # "start"

navFrame == <<chapters, chapterIndicatorEl, prevDisabled, nextDisabled, atTop,
              initVars, listVars, prefVars, localStorage>>

\* a click that prevBtn dispatches (a disabled button dispatches none)
PrevClick ==
    /\ Listening
    /\ ~prevDisabled
    /\ LoadChapter(currentChapterIndex - 1)
    /\ UNCHANGED <<navFrame, modalVars>>

NextClick ==
    /\ Listening
    /\ ~nextDisabled
    /\ LoadChapter(currentChapterIndex + 1)
    /\ UNCHANGED <<navFrame, modalVars>>

Keys == {"ArrowLeft", "ArrowRight", "Enter"}

\* the keydown listener: prevBtn.click() / nextBtn.click()
KeyDown(key) ==
    /\ Listening
    /\ IF key = "ArrowLeft" /\ ~prevDisabled
       THEN LoadChapter(currentChapterIndex - 1)
       ELSE IF key = "ArrowRight" /\ ~nextDisabled
       THEN LoadChapter(currentChapterIndex + 1)
       ELSE UNCHANGED <<currentChapterIndex, chapterContentEl, calls>>
    /\ UNCHANGED <<navFrame, modalVars>>

ChapterListBtnClick ==
    /\ Listening
    /\ chapterModalVisible' = TRUE
    /\ UNCHANGED <<navVars, initVars, listVars, settingsModalVisible, prefVars,
                   localStorage>>

SettingsBtnClick ==
    /\ Listening
    /\ settingsModalVisible' = TRUE
    /\ UNCHANGED <<navVars, initVars, listVars, chapterModalVisible, prefVars,
                   localStorage>>

Modals == {"chapter-modal", "settings-modal"}

CloseBtnClick(modal) ==
    /\ Listening
    /\ IF modal = "chapter-modal"
       THEN chapterModalVisible' = FALSE /\ UNCHANGED settingsModalVisible
       ELSE settingsModalVisible' = FALSE /\ UNCHANGED chapterModalVisible
    /\ UNCHANGED <<navVars, initVars, listVars, prefVars, localStorage>>

\* a click on the n-th <a> of the chapter list
ChapterListClick(n) ==
    /\ Listening
    /\ n \in 1..Len(chapterListEl)
    /\ LET index == ParseInt(chapterListEl[n].dataIndex)
       IN  /\ ~index.nan      \* data-index is always written from a number
           /\ LoadChapter(index.val)
    /\ chapterModalVisible' = FALSE
    /\ UNCHANGED <<navFrame, settingsModalVisible>>

\* chapters.filter(c => c.title.toLowerCase().includes(searchTerm))
FilterChapters(cs, searchTerm) ==
    LET Matches(c) == Includes(ToLowerCase(c.title), searchTerm)
    IN  SelectSeq(cs, Matches)

\* a search listener that filters the list `chapters` itself
SearchInputFiltering(value) ==
    /\ Listening
    /\ chapterSearchEl' = value
    /\ chapters' = FilterChapters(chapters, ToLowerCase(value))
    /\ chapterListEl' = populateChapterList(chapters', chapters')
    /\ UNCHANGED <<currentChapterIndex, chapterContentEl, chapterIndicatorEl,
                   prevDisabled, nextDisabled, atTop, calls, initVars,
                   modalVars, prefVars, localStorage>>

\* the input listener of the search box
SearchInput(value) ==
    /\ Listening
    /\ chapterSearchEl' = value
    /\ UNCHANGED <<navVars, initVars, modalVars, prefVars, localStorage>>
    /\ chapterListEl' =
           populateChapterList(chapters,
                               FilterChapters(chapters, ToLowerCase(value)))

FontSizeInput(value) ==
    /\ Listening
    /\ fontSizeSlider' = value
    /\ ShowView(applySetting(View, "fontSize", value))
    /\ UNCHANGED <<navVars, initVars, listVars, modalVars, lineHeightSlider>>

LineHeightInput(value) ==
    /\ Listening
    /\ lineHeightSlider' = value
    /\ ShowView(applySetting(View, "lineHeight", value))
    /\ UNCHANGED <<navVars, initVars, listVars, modalVars, fontSizeSlider>>

ThemeToggleClick ==
    /\ Listening
    /\ LET newTheme == IF dataTheme = Dark THEN Light ELSE Dark
       IN  ShowView(applySetting(View, "theme", newTheme))
    /\ UNCHANGED <<navVars, initVars, listVars, modalVars, fontSizeSlider,
                   lineHeightSlider>>

\* the reader scrolls the page away from the top
UserScroll ==
    /\ Listening
    /\ atTop
    /\ atTop' = FALSE
    /\ UNCHANGED <<chapters, currentChapterIndex, chapterContentEl,
                   chapterIndicatorEl, prevDisabled, nextDisabled, calls,
                   initVars, listVars, modalVars, prefVars, localStorage>>

----------------------------------------------------------------------------

\* initialization, chapter loading, navigation, the picker and its search
NextNav ==
    \/ DOMContentLoaded
    \/ \E status \in Statuses : ManifestFetchSettles(status)
    \/ \E parsed \in BOOLEAN, manifest \in Manifests :
           ManifestJsonSettles(parsed, manifest)
    \/ \E c \in 1..MaxInFlight, status \in Statuses : LlmFetchSettles(c, status)
    \/ \E c \in 1..MaxInFlight, status \in Statuses : RawFetchSettles(c, status)
    \/ \E c \in 1..MaxInFlight, resolved \in BOOLEAN : TextSettles(c, resolved)
    \/ PrevClick
    \/ NextClick
    \/ \E key \in Keys : KeyDown(key)
    \/ \E n \in 1..MaxChapters : ChapterListClick(n)
    \/ \E value \in SearchTerms : SearchInput(value)

\* the settings, the two overlays and the scroll position
NextPrefs ==
    \/ DOMContentLoaded
    \/ \E value \in FontSizeValues : FontSizeInput(value)
    \/ \E value \in LineHeightValues : LineHeightInput(value)
    \/ ThemeToggleClick
    \/ ChapterListBtnClick
    \/ SettingsBtnClick
    \/ \E modal \in Modals : CloseBtnClick(modal)
    \/ UserScroll

Next == NextNav \/ NextPrefs

\* a browser profile that holds no preference yet
InitNav == Init /\ \A key \in PrefKeys : localStorage[key] = Null

Spec      == Init /\ [][Next]_vars
SpecNav   == InitNav /\ [][NextNav]_vars
SpecPrefs == Init /\ [][NextPrefs]_vars

\* the await of activation c settles: a response or a rejection of its fetch,
\* or the end of the reading of the body
FetchSettles(c) ==
    \/ \E status \in Statuses : LlmFetchSettles(c, status)
    \/ \E status \in Statuses : RawFetchSettles(c, status)
    \/ \E resolved \in BOOLEAN : TextSettles(c, resolved)

\* initialization, chapter loading and the navigation by the two buttons and
\* the picker, without the search box and the keyboard
NextLoads ==
    \/ DOMContentLoaded
    \/ \E status \in Statuses : ManifestFetchSettles(status)
    \/ \E parsed \in BOOLEAN, manifest \in Manifests :
           ManifestJsonSettles(parsed, manifest)
    \/ \E c \in 1..MaxInFlight : FetchSettles(c)
    \/ PrevClick
    \/ NextClick
    \/ \E n \in 1..MaxChapters : ChapterListClick(n)

\* the loads of NextLoads and the three settings controls
NextLoadsPrefs ==
    \/ NextLoads
    \/ \E value \in FontSizeValues : FontSizeInput(value)
    \/ \E value \in LineHeightValues : LineHeightInput(value)
    \/ ThemeToggleClick

SpecLoadsPrefs == InitNav /\ [][NextLoadsPrefs]_vars

\* the loads in a browser whose fetches all settle: no activation stays
\* suspended at an await for ever
SpecLoadsFair ==
    /\ InitNav
    /\ [][NextLoads]_vars
    /\ \A c \in 1..MaxInFlight : WF_vars(FetchSettles(c))

----------------------------------------------------------------------------
(* Properties of chapter loading *)

LastChapter == GetItem(localStorage, LastChapterKey)

\* a step of a listener or of init whose call of loadChapter gets an index
\* outside [0, chapters.length - 1]
CallsOutOfRange ==
    \/ OutOfRange(chapters, currentChapterIndex - 1)
         /\ (PrevClick \/ (~prevDisabled /\ KeyDown("ArrowLeft")))
    \/ OutOfRange(chapters, currentChapterIndex + 1)
         /\ (NextClick \/ (~nextDisabled /\ KeyDown("ArrowRight")))
    \/ \E n \in 1..Len(chapterListEl) :
           /\ OutOfRange(chapters, ParseInt(chapterListEl[n].dataIndex).val)
           /\ ChapterListClick(n)
    \/ /\ pc = "manifest_json"
       /\ \E manifest \in Manifests :
              /\ OutOfRange(manifest, lastChapterIndex(localStorage))
              /\ ManifestJsonSettles(TRUE, manifest)

\* C1: loadChapter(index) with index < 0 or index >= chapters.length changes
\* neither the current index, the content area, the prev/next disabled flags,
\* the indicator nor the persisted lastChapter entry, and issues no fetch.
C1_OutOfRangeIsNoOp ==
    [][CallsOutOfRange =>
          /\ currentChapterIndex' = currentChapterIndex
          /\ chapterContentEl' = chapterContentEl
          /\ prevDisabled' = prevDisabled
          /\ nextDisabled' = nextDisabled
          /\ chapterIndicatorEl' = chapterIndicatorEl
          /\ LastChapter' = LastChapter
          /\ calls' = calls]_vars

\* init has called loadChapter(7) on a list of at least one chapter, and
\* nothing was loaded
C1_Witness ==
    /\ pc = "idle"
    /\ Len(chapters) >= 1
    /\ LastChapter = <<"7">>
    /\ chapterContentEl = Initial
    /\ calls = <<>>

\* C2: when a loadChapter(i) call completes successfully, the current
\* chapter index is i and the persisted lastChapter entry is i, also when
\* other loads were started while it was in flight.
C2_SuccessSetsIndexAndEntry ==
    [][\A c \in 1..Len(calls) :
          (calls[c].at = "text" /\ TextSettles(c, TRUE)) =>
              /\ currentChapterIndex' = calls[c].index
              /\ LastChapter' = NumToString(calls[c].index)]_vars

\* C3: the current chapter index changes only in the step in which a chapter
\* load succeeds; starting a load and failing a load leave it as it was.
C3_IndexChangesOnlyOnSuccess ==
    [][currentChapterIndex' # currentChapterIndex =>
          \E c \in 1..Len(calls) :
              calls[c].at = "text" /\ TextSettles(c, TRUE)]_vars

\* C4: a load fetches the preferred path first, fetches the fallback path once
\* exactly when the preferred response was a 404, and goes on after no other
\* failure: every activation still in flight has fetched the preferred path
\* alone and seen nothing or a success, or has fetched both and seen the 404.
C4_FallbackOnlyAfter404 ==
    \A c \in 1..Len(calls) :
        LET call    == calls[c]
            chapter == chapters[call.index + 1]
        IN  /\ call.fetches[1] = [dir |-> "llm_chapters", file |-> chapter.file]
            /\ Len(call.fetches) <= 2
            /\ Len(call.fetches) = 2 <=>
                   (call.statuses # <<>> /\ call.statuses[1] = 404)
            /\ Len(call.fetches) = 2 =>
                   call.fetches[2] = [dir |-> "raw_chapters", file |-> chapter.file]
            /\ \A k \in 1..Len(call.statuses) :
                   \/ call.statuses[k] \in 200..299
                   \/ k = 1 /\ call.statuses[k] = 404
            /\ call.at = "llm" => call.statuses = <<>>
            /\ call.at = "raw" => call.statuses = <<404>>
            /\ call.at = "text" =>
                   call.statuses[Len(call.statuses)] \in 200..299

\* a load whose preferred path was a 404 has its fallback response
C4_Witness ==
    \E c \in 1..Len(calls) :
        /\ calls[c].at = "text"
        /\ Len(calls[c].fetches) = 2
        /\ calls[c].statuses = <<404, 200>>

\* C5: once a load has been started on a list of at least one chapter, the
\* previous control is disabled iff the current index is 0 and the next
\* control iff it is length - 1, in flight and after a failure too.
C5_ControlsFollowIndex ==
    (chapterContentEl # Initial /\ Len(chapters) >= 1) =>
        /\ prevDisabled <=> (currentChapterIndex = 0)
        /\ nextDisabled <=> (currentChapterIndex = Len(chapters) - 1)

\* C6: with a manifest of at least one chapter loaded, the current chapter
\* index is a position of the list.
C6_IndexInRange ==
    Len(chapters) >= 1 =>
        currentChapterIndex \in 0..(Len(chapters) - 1)

\* the last chapter is current while the next control is still enabled, so
\* that a click on it calls loadChapter(length)
C6_Witness ==
    /\ Len(chapters) >= 2
    /\ currentChapterIndex = Len(chapters) - 1
    /\ ~nextDisabled
    /\ chapterContentEl = FailedText
    /\ calls = <<>>

----------------------------------------------------------------------------
(* Properties of initialization *)

\* C7: when the manifest fetch rejects or answers with a non-success status,
\* the title area shows the fixed error message, and from then on the chapter
\* list is empty, no chapter fetch is issued and the manifest is not fetched
\* again.
C7_ManifestFailureStops ==
    [][/\ \A status \in Statuses :
             (pc = "manifest_fetch" /\ ~(status \in 200..299)
                 /\ ManifestFetchSettles(status)) =>
                 novelTitleEl' = CouldNotLoad
       /\ novelTitleEl' = CouldNotLoad =>
             /\ chapters' = <<>>
             /\ calls' = <<>>
             /\ chapterContentEl' = Initial
             /\ manifestFetches' = 1
             /\ pc' = "idle"
       /\ novelTitleEl = CouldNotLoad => novelTitleEl' = CouldNotLoad]_vars

\* the manifest failed and the reader has typed into the search box since
C7_Witness ==
    /\ novelTitleEl = CouldNotLoad
    /\ chapterSearchEl # <<>>
    /\ chapters = <<>>
    /\ calls = <<>>

\* an optional minus sign and then decimal digits only
IsIntegerString(v) ==
    /\ v # Null
    /\ LET body == IF v # <<>> /\ v[1] = "-" THEN Tail(v) ELSE v
       IN  body # <<>> /\ \A i \in 1..Len(body) : IsDigit(body[i])

\* a string with no number at its start: empty, or starting with neither a
\* digit nor a sign
StartsWithNoNumber(v) == v = <<>> \/ ~(IsDigit(v[1]) \/ v[1] \in {"-", "+", " "})

RECURSIVE Pow10(_)
Pow10(n) == IF n = 0 THEN 1 ELSE 10 * Pow10(n - 1)

RECURSIVE PositionalSum(_, _)
PositionalSum(body, i) ==
    IF i > Len(body) THEN 0
    ELSE DigitValue(body[i]) * Pow10(Len(body) - i) + PositionalSum(body, i + 1)

IntegerValue(v) ==
    IF v[1] = "-" THEN 0 - PositionalSum(Tail(v), 1) ELSE PositionalSum(v, 1)

\* the step starts the load of the chapter at index of list cs, or leaves
\* loading alone when cs has no such chapter
RequestsChapter(cs, index) ==
    IF index \in 0..(Len(cs) - 1)
    THEN /\ currentChapterIndex' = index
         /\ calls' = Append(NotOvertaken(calls), calls'[Len(calls')])
         /\ calls'[Len(calls')].index = index
         /\ calls'[Len(calls')].fetches =
                <<[dir |-> "llm_chapters", file |-> cs[index + 1].file]>>
    ELSE calls' = calls /\ currentChapterIndex' = currentChapterIndex

\* C8: after a successful manifest load init requests the chapter at the
\* stored lastChapter index when the entry holds an integer, and the chapter
\* at index 0 when the entry is absent or starts with no number.
C8_InitRequestsStoredIndex ==
    [][pc = "manifest_json" =>
          \A manifest \in Manifests :
              ManifestJsonSettles(TRUE, manifest) =>
                  /\ IsIntegerString(LastChapter) =>
                         RequestsChapter(manifest, IntegerValue(LastChapter))
                  /\ (LastChapter = Null \/ StartsWithNoNumber(LastChapter)) =>
                         RequestsChapter(manifest, 0)]_vars

\* init has started the load of the chapter stored as "1"
C8_Witness ==
    /\ LastChapter = <<"1">>
    /\ chapterIndicatorEl = <<>>
    /\ currentChapterIndex = 1
    /\ Len(calls) = 1
    /\ calls[1].index = 1
    /\ chapterContentEl = LoadingText(chapters[2])

----------------------------------------------------------------------------
(* Properties of the chapter picker *)

\* title contains term when letter case is ignored
ContainsIgnoringCase(title, term) ==
    \E offset \in 0..(Len(title) - Len(term)) :
        \A j \in 1..Len(term) : LowerChar(title[offset + j]) = LowerChar(term[j])

\* the 1-based positions of the chapters a term selects
Selected(cs, term) ==
    {k \in 1..Len(cs) : ContainsIgnoringCase(cs[k].title, term)}

\* the entries of the chapters a term selects, in manifest order, each with
\* the 0-based position of its chapter in the whole list
SelectedEntries(cs, term) ==
    LET sel == Selected(cs, term)
        Nth(n) == CHOOSE k \in sel : Cardinality({j \in sel : j < k}) = n - 1
    IN  [n \in 1..Cardinality(sel) |->
            [dataIndex |-> NumToString(Nth(n) - 1),
             text      |-> EntryText(cs[Nth(n)])]]

\* C9: a search renders exactly the chapters whose title contains the term
\* case-insensitively, in manifest order, each entry carrying the position of
\* its chapter in the unfiltered list; every rendered entry names a chapter of
\* the list by that position; and selecting the Nth visible entry starts the
\* load of the chapter at that position.
C9_EntriesKeepCanonicalIndex ==
    /\ [](\A n \in 1..Len(chapterListEl) :
             LET index == ParseInt(chapterListEl[n].dataIndex)
             IN  /\ ~index.nan
                 /\ index.val \in 0..(Len(chapters) - 1)
                 /\ chapterListEl[n].text = EntryText(chapters[index.val + 1])
                 /\ n > 1 =>
                        ParseInt(chapterListEl[n - 1].dataIndex).val < index.val)
    /\ [][/\ SearchInput(chapterSearchEl') =>
                chapterListEl' = SelectedEntries(chapters, chapterSearchEl')
          /\ \A n \in 1..Len(chapterListEl) :
                ChapterListClick(n) =>
                    RequestsChapter(chapters,
                                    ParseInt(chapterListEl[n].dataIndex).val)]_vars

\* the one visible entry is the second chapter of the list, and its load has
\* been started
C9_Witness ==
    /\ chapterSearchEl = <<"a">>
    /\ Len(chapters) = 2
    /\ Len(chapterListEl) = 1
    /\ chapterListEl[1].dataIndex = <<"1">>
    /\ currentChapterIndex = 1
    /\ Len(calls) = 1
    /\ calls[1].index = 1
    /\ chapterContentEl = LoadingText(chapters[2])

----------------------------------------------------------------------------
(* Properties of the preferences *)

\* C10: once loadSettings has run, the shown font size, line height and theme
\* are the values persisted under fontSize, lineHeight and theme, after every
\* sequence of slider and theme-toggle events.
C10_ShownEqualsPersisted ==
    Listening =>
        /\ GetItem(localStorage, "fontSize") # Null
        /\ fontSizeStyle = GetItem(localStorage, "fontSize") \o <<"p", "x">>
        /\ fontSizeValueEl = GetItem(localStorage, "fontSize") \o <<"p", "x">>
        /\ GetItem(localStorage, "lineHeight") # Null
        /\ lineHeightStyle = GetItem(localStorage, "lineHeight")
        /\ lineHeightValueEl = GetItem(localStorage, "lineHeight")
        /\ GetItem(localStorage, "theme") # Null
        /\ dataTheme = GetItem(localStorage, "theme")

\* font size 22 is shown as "22px" and stored as "22"; the theme is dark
C10_Witness ==
    /\ Listening
    /\ fontSizeStyle = <<"2", "2", "p", "x">>
    /\ GetItem(localStorage, "fontSize") = <<"2", "2">>
    /\ lineHeightStyle = <<"2">>
    /\ dataTheme = Dark
    /\ GetItem(localStorage, "theme") = Dark

----------------------------------------------------------------------------
(* Properties of overlapping loads *)

\* the fetches of chapter bodies that have been issued and not answered:
\* <<c, k>> is the k-th fetch of activation c
FetchesInFlight ==
    {ck \in (1..Len(calls)) \X (1..2) :
        /\ ck[2] <= Len(calls[ck[1]].fetches)
        /\ ck[2] > Len(calls[ck[1]].statuses)}

\* C11 as stated: in no reachable state are two fetches of chapter bodies
\* pending at the same time.
C11_OneFetchInFlight == Cardinality(FetchesInFlight) <= 1

\* C11: one call of loadChapter never has two fetches pending: while it
\* awaits the preferred or the fallback response exactly one of its fetches
\* is unanswered, and none is once it reads the body.  (Two calls may each
\* have a fetch pending.)
C11_OneFetchPerCall ==
    \A c \in 1..Len(calls) :
        Len(calls[c].fetches) - Len(calls[c].statuses) =
            IF calls[c].at \in {"llm", "raw"} THEN 1 ELSE 0

\* two calls overlap: the earlier one awaits its fallback fetch, the later
\* one its preferred fetch
C11_Witness ==
    /\ Len(calls) = 2
    /\ calls[1].at = "raw"
    /\ calls[2].at = "llm"
    /\ Cardinality(FetchesInFlight) = 2

\* C12: when two overlapping loads both succeed, the content area ends up
\* with the body of the chapter of the load that was started later: a load
\* that succeeds while the content area shows the body put there by a load
\* started after it leaves that chapter's body in the content area.
C12_LaterLoadWins ==
    [][\A c \in 1..Len(calls) :
          (/\ calls[c].at = "text"
           /\ calls[c].overtaken
           /\ chapterContentEl.kind = "text"
           /\ TextSettles(c, TRUE)) =>
              /\ chapterContentEl'.kind = "text"
              /\ chapterContentEl'.path.file = chapterContentEl.path.file]_vars

----------------------------------------------------------------------------
(* Properties of failed loads and of initialization *)

\* a step of one of the listeners that navigate: prev, next, an arrow key or
\* a click in the picker
UserNavigation ==
    \/ PrevClick
    \/ NextClick
    \/ \E key \in Keys : KeyDown(key)
    \/ \E n \in 1..Len(chapterListEl) : ChapterListClick(n)

\* the activations that await the response to their first fetch
AtFirstFetch(cs) == {c \in 1..Len(cs) : cs[c].at = "llm"}

\* a step in which a call of loadChapter gets past its guard
StartsLoad == Cardinality(AtFirstFetch(calls')) > Cardinality(AtFirstFetch(calls))

\* a step in which a fetch of a chapter body is issued: by a new call, or as
\* the fallback of a call in flight
IssuesFetch ==
    \/ Len(calls') > Len(calls)
    \/ /\ Len(calls') = Len(calls)
       /\ \E c \in 1..Len(calls) :
              Len(calls'[c].fetches) > Len(calls[c].fetches)

\* a step in which a call of loadChapter returns from its catch block
LoadFails ==
    /\ Len(calls') < Len(calls)
    /\ ~ \E c \in 1..Len(calls) : calls[c].at = "text" /\ TextSettles(c, TRUE)

\* C13 as stated: while the content area shows the failure message, no fetch
\* is issued except in a step of a navigation listener.
C13_NoFetchAfterFailure ==
    [][(chapterContentEl = FailedText /\ IssuesFetch) => UserNavigation]_vars

\* C13: a load that fails leaves the fixed failure message in the content
\* area, and a call of loadChapter is started only by a navigation listener
\* or by init, never by the program on its own after a failure.  (The fallback
\* fetch of another call in flight may still be issued.)
C13_NoLoadWithoutNavigation ==
    [][/\ LoadFails => chapterContentEl' = FailedText
       /\ StartsLoad => (pc = "manifest_json" \/ UserNavigation)]_vars

\* a load has failed while another one is in flight, and that one has issued
\* its fallback fetch
C13_Witness ==
    /\ chapterContentEl = FailedText
    /\ Len(calls) = 1
    /\ calls[1].at = "raw"
    /\ LastChapter = Null

\* C14: when init has read a manifest of at least one chapter, it starts a
\* chapter load, whatever is stored under lastChapter: one more call is in
\* flight and the content area shows the loading placeholder of the chapter
\* at the current index.
C14_InitAlwaysStartsLoad ==
    [][pc = "manifest_json" =>
          \A manifest \in Manifests :
              (Len(manifest) >= 1 /\ ManifestJsonSettles(TRUE, manifest)) =>
                  /\ Len(calls') = Len(calls) + 1
                  /\ currentChapterIndex' \in 0..(Len(manifest) - 1)
                  /\ chapterContentEl' =
                         LoadingText(manifest[currentChapterIndex' + 1])]_vars

\* the oldest call in flight returns
OldestLoadEnds == FetchSettles(1) /\ Len(calls') < Len(calls)

\* C15: if every fetch settles, every load that was started ends: always
\* again either no call is in flight or the oldest call in flight returns
\* (so every call comes to be the oldest and returns); and whenever no call
\* is in flight the content area does not show a loading placeholder.
C15_LoadsEnd ==
    /\ []<>(calls = <<>>) \/ []<><<OldestLoadEnds>>_vars
    /\ [](calls = <<>> => chapterContentEl.kind # "loading")

\* two overlapping loads have both returned; the body shown is not the one of
\* the chapter at the current index
C15_Witness ==
    /\ calls = <<>>
    /\ chapterContentEl.kind = "text"
    /\ chapterContentEl.path.file # chapters[currentChapterIndex + 1].file

----------------------------------------------------------------------------
(* Frame properties *)

\* C16: once init is over, no step changes the list `chapters` (neither its
\* contents nor its order): not a search, not a click in the picker, not a
\* navigation, not the settling of a load; and a step that changes the search
\* box or re-renders the picker leaves the current index, the content area
\* and localStorage as they were.
C16_ListNeverChanges ==
    [][pc = "idle" =>
          /\ chapters' = chapters
          /\ (chapterSearchEl' # chapterSearchEl \/ chapterListEl' # chapterListEl) =>
                 /\ currentChapterIndex' = currentChapterIndex
                 /\ chapterContentEl' = chapterContentEl
                 /\ localStorage' = localStorage]_vars

\* a chapter is displayed and persisted, and the picker has been filtered to
\* one of the two chapters
C16_Witness ==
    /\ pc = "idle"
    /\ Len(chapters) = 2
    /\ chapterSearchEl = <<"a">>
    /\ Len(chapterListEl) = 1
    /\ chapterContentEl.kind = "text"
    /\ LastChapter = NumToString(currentChapterIndex)
    /\ calls = <<>>

\* what is persisted and what is shown of each preference, and of the chapter
FontSizeState   == <<GetItem(localStorage, "fontSize"), fontSizeStyle,
                     fontSizeValueEl>>
LineHeightState == <<GetItem(localStorage, "lineHeight"), lineHeightStyle,
                     lineHeightValueEl>>
ThemeState      == <<GetItem(localStorage, "theme"), dataTheme>>
ChapterState    == <<LastChapter, currentChapterIndex, chapterContentEl>>

\* C17: a step of the font-size slider, of the line-height slider or of the
\* theme toggle (each one call of applySetting) leaves the persisted and the
\* shown values of the other two preferences, the lastChapter entry, the
\* current index and the content area unchanged; and a step that starts,
\* advances or ends a chapter load leaves the three preferences unchanged.
C17_PreferencesIndependent ==
    [][/\ FontSizeInput(fontSizeSlider') =>
              UNCHANGED <<LineHeightState, ThemeState, ChapterState>>
       /\ LineHeightInput(lineHeightSlider') =>
              UNCHANGED <<FontSizeState, ThemeState, ChapterState>>
       /\ ThemeToggleClick =>
              UNCHANGED <<FontSizeState, LineHeightState, ChapterState>>
       /\ calls' # calls =>
              UNCHANGED <<FontSizeState, LineHeightState, ThemeState>>]_vars

\* a chapter body is displayed and persisted while the font size has been
\* set to 22 and the theme to dark; the line height is still the default
C17_Witness ==
    /\ chapterContentEl.kind = "text"
    /\ LastChapter # Null
    /\ FontSizeState = <<(<<"2", "2">>), <<"2", "2", "p", "x">>,
                         <<"2", "2", "p", "x">>>>
    /\ LineHeightState = <<LineHeightDefault, LineHeightDefault,
                           LineHeightDefault>>
    /\ ThemeState = <<Dark, Dark>>

----------------------------------------------------------------------------
(* Properties of the persisted lastChapter entry *)

\* C18: the lastChapter entry is written only in the step in which a load
\* completes successfully, and then with that load's index; a step that
\* starts a load (the load is then in Loading) and a step in which a load
\* fails leave the entry as it was.
C18_EntryWrittenOnSuccessOnly ==
    [][/\ LastChapter' # LastChapter =>
              \E c \in 1..Len(calls) :
                  /\ calls[c].at = "text"
                  /\ TextSettles(c, TRUE)
                  /\ LastChapter' = NumToString(calls[c].index)
       /\ (StartsLoad \/ LoadFails) => LastChapter' = LastChapter]_vars

\* the first chapter was displayed and persisted; then the load of the second
\* one failed, and the entry still names the first
C18_Witness ==
    /\ chapterContentEl = FailedText
    /\ calls = <<>>
    /\ currentChapterIndex = 1
    /\ LastChapter = <<"0">>

\* the index of the chapter whose body the content area shows
ShownIndex ==
    CHOOSE i \in 0..(Len(chapters) - 1) :
        chapters[i + 1].file = chapterContentEl.path.file

\* C19: whenever the content area shows a chapter body, the lastChapter
\* entry is the index of the chapter whose body it is.
C19_EntryNamesShownChapter ==
    chapterContentEl.kind = "text" =>
        /\ \E i \in 0..(Len(chapters) - 1) :
               chapters[i + 1].file = chapterContentEl.path.file
        /\ LastChapter = NumToString(ShownIndex)

\* the body shown is the second chapter's, put there by a load that another
\* load overtook; the current index is 0 and that other load is in flight
C19_Witness ==
    /\ chapterContentEl.kind = "text"
    /\ Len(chapters) = 2
    /\ chapterContentEl.path.file = chapters[2].file
    /\ LastChapter = <<"1">>
    /\ currentChapterIndex = 0
    /\ Len(calls) = 1
    /\ calls[1].index = 0

====
